---- MODULE Spec2Model ----
(***************************************************************************)
(* Batch job orchestration engine of the Gait Monitor application          *)
(* (src-tauri/src/batch_processing.rs): BatchProcessor with its job map,   *)
(* priority queue, statistics, worker task, scheduler task and cleanup     *)
(* task.                                                                   *)
(*                                                                         *)
(* The caller-facing operations (submit_job, cancel_job,                   *)
(* cleanup_completed_jobs) take all their locks on entry and are one       *)
(* action each.  The scheduler task takes its locks one short block at a   *)
(* time, so each block is one action; the worker task has one block        *)
(* before and one after the awaited handler call.                          *)
(***************************************************************************)
EXTENDS Integers, Sequences, FiniteSets, TLC

\* ------------------------------------------------------------------ bounds
\* Number of jobs ever built (BatchJob::new draws a fresh uuid for every job).
MaxJobs == 2

\* --------------------------------------------------------------- constants
\* enum JobPriority
Low == 1
Normal == 2
High == 3
Critical == 4

JobPriority == {Low, Normal, High, Critical}

\* enum JobStatus
JobStatus == {"Queued", "Running", "Completed", "Failed", "Cancelled", "Paused"}

Terminal == {"Completed", "Failed", "Cancelled"}

\* enum JobResult: Success(Option<String>), Failure(String), Retry(String), Cancel
JobResult == {"Success", "Failure", "Retry", "Cancel"}

JobIds == 1..MaxJobs

\* BatchJob::new: max_retries: 3
DefaultMaxRetries == 3

\* BatchJob::new: timeout_seconds: 3600
DefaultTimeout == 3600

\* ------------------------------------------------------------------- state
VARIABLES
    config,        \* BatchProcessorConfig, fixed at construction
    jobs,          \* HashMap<String, BatchJob>: function from tracked ids to records
    queue,         \* VecDeque<String>: job ids in queue order
    stats,         \* QueueStats counters
    running_jobs,  \* HashMap<String, Instant>: its key set
    chan,          \* worker_tx/worker_rx: ProcessJob messages in flight (job clones)
    worker,        \* worker task: <<>> waiting in recv, <<job>> inside the handler call
    start_time,    \* worker task: the Instant taken before the handler call
    sched,         \* scheduler task: position in the tick body and its locals
    next_id,       \* next fresh job id
    holder,        \* per Mutex (jobs, queue, stats, running): the task holding its guard
    todo,          \* per task: the lock operations left in the call it is making
    ret,           \* observation: what the call made by the last step returned
    hist,          \* observation: per submitted id, what has happened to the job
    log            \* observation: ids in the order the scheduler sent them to the worker

prog == <<config, jobs, queue, stats, running_jobs, chan, worker, start_time, sched, next_id>>

\* The lock-level view of the same operations: which guard each task holds.
locks == <<holder, todo>>

vars == <<prog, locks, ret, hist, log>>

\* ----------------------------------------------------------------- helpers
Tracked == DOMAIN jobs

\* The four Mutexes of BatchProcessor and the tasks that lock them: one
\* caller per public operation and the three spawned loops.
Mutexes == {"jobs", "queue", "stats", "running"}

Tasks ==
    {"submit_job", "cancel_job", "get_job_status", "get_stats",
     "cleanup_completed_jobs", "worker", "scheduler", "cleanup_task"}

SatSub(n) == IF n > 0 THEN n - 1 ELSE 0

Put(f, k, v) == [i \in (DOMAIN f) \cup {k} |-> IF i = k THEN v ELSE f[i]]

Drop(f, S) == [i \in (DOMAIN f) \ S |-> f[i]]

Range(s) == {s[i] : i \in 1..Len(s)}

InsertAt(s, i, e) == SubSeq(s, 1, i - 1) \o <<e>> \o SubSeq(s, i, Len(s))

Retain(s, id) == SelectSeq(s, LAMBDA x : x # id)

\* ret: the operation, its id argument or numeric result, and its Ok/Err kind
NoRet == [op |-> "none", arg |-> 0, res |-> "none"]

\* BatchJob::new, for the uuid `id` it draws
BatchJob_new(id, priority) ==
    [id |-> id,
     priority |-> priority,
     status |-> "Queued",
     started_at |-> "None",
     completed_at |-> "None",
     error_message |-> "None",
     retry_count |-> 0,
     max_retries |-> DefaultMaxRetries,
     timeout_seconds |-> DefaultTimeout,
     dependencies |-> {},
     result_data |-> "None"]

\* BatchJob::with_timeout
with_timeout(job, timeout_seconds) == [job EXCEPT !.timeout_seconds = timeout_seconds]

\* BatchJob::with_retries
with_retries(job, max_retries) == [job EXCEPT !.max_retries = max_retries]

\* BatchJob::with_dependencies
with_dependencies(job, dependencies) == [job EXCEPT !.dependencies = dependencies]

\* BatchJob::new followed by with_retries / with_dependencies
NewJob(id, priority, max_retries, dependencies) ==
    with_dependencies(with_retries(BatchJob_new(id, priority), max_retries), dependencies)

\* is_ready_to_run with an unknown dependency id counted as satisfied.
is_ready_to_run_SkipsUnknown(job, completed_jobs) ==
    /\ job.status = "Queued"
    /\ \A dep_id \in job.dependencies :
          dep_id \in DOMAIN completed_jobs => completed_jobs[dep_id].status = "Completed"

\* BatchJob::is_ready_to_run
is_ready_to_run(job, completed_jobs) ==
    /\ job.status = "Queued"
    /\ \A dep_id \in job.dependencies :
          /\ dep_id \in DOMAIN completed_jobs
          /\ completed_jobs[dep_id].status = "Completed"


\* What the handler call returns for the job clone it was handed.  The handler
\* bodies are placeholders; the outcome is any JobResult variant, except that
\* the cancellation check reads the clone's own status field.
process_job_type(job) ==
    IF job.status = "Cancelled" THEN {"Cancel"} ELSE JobResult

\* FirstLower with >= in place of > in the priority comparison.
FirstLower_NotStrict(q, js, job_priority) ==
    LET hits == {i \in 1..Len(q) : q[i] \in DOMAIN js /\ job_priority >= js[q[i]].priority}
    IN  IF hits = {} THEN 0 ELSE CHOOSE i \in hits : \A j \in hits : i <= j

\* The position submit_job's scan gives a new id: before the first queued id
\* whose (tracked) job has strictly lower priority; 0 when there is none.
FirstLower(q, js, job_priority) ==
    LET hits == {i \in 1..Len(q) : q[i] \in DOMAIN js /\ job_priority > js[q[i]].priority}
    IN  IF hits = {} THEN 0 ELSE CHOOSE i \in hits : \A j \in hits : i <= j

\* The queue insertion placing the new id behind the first lower-priority id.
QueueInsert_AfterHit(q, js, job_id) ==
    IF config.priority_scheduling
    THEN LET i == FirstLower(q, js, js[job_id].priority)
         IN  IF i = 0 THEN Append(q, job_id) ELSE InsertAt(q, i + 1, job_id)
    ELSE Append(q, job_id)

\* The queue insertion that orders by priority whatever the configuration.
QueueInsert_AlwaysPriority(q, js, job_id) ==
    LET i == FirstLower(q, js, js[job_id].priority)
    IN  IF i = 0 THEN Append(q, job_id) ELSE InsertAt(q, i, job_id)

\* submit_job's queue insertion: by priority when priority_scheduling is on,
\* at the back otherwise.
QueueInsert(q, js, job_id) ==
    IF config.priority_scheduling
    THEN LET i == FirstLower(q, js, js[job_id].priority)
         IN  IF i = 0 THEN Append(q, job_id) ELSE InsertAt(q, i, job_id)
    ELSE Append(q, job_id)

\* -------------------------------------------------------------------- Init
\* BatchProcessor::new with the given configuration
InitWith(configs) ==
    /\ config \in configs
    /\ jobs = <<>>
    /\ queue = <<>>
    /\ stats = [total_jobs |-> 0, queued_jobs |-> 0, running_jobs |-> 0,
                completed_jobs |-> 0, failed_jobs |-> 0, cancelled_jobs |-> 0,
                queue_length |-> 0,
                average_processing_time_seconds |-> <<0, 1>>]
    /\ running_jobs = {}
    /\ chan = <<>>
    /\ worker = <<>>
    /\ start_time = "None"
    /\ sched = [pc |-> "tick", job_id |-> <<>>, job |-> <<>>]
    /\ next_id = 1
    /\ holder = [l \in Mutexes |-> "free"]
    /\ todo = [t \in Tasks |-> <<>>]
    /\ ret = NoRet
    /\ hist = <<>>
    /\ log = <<>>

\* ------------------------------------------------------- caller operations
\* submit_job_result with > in place of >= in the ceiling test.
submit_job_result_OffByOne ==
    IF Cardinality(Tracked) > config.max_queue_size THEN "QueueFull" ELSE "Ok"

\* submit_job: Err("Job queue is full") or Ok(job_id)
submit_job_result ==
    IF Cardinality(Tracked) >= config.max_queue_size THEN "QueueFull" ELSE "Ok"

\* submit_job storing the record with the status it was submitted with.
submit_job_KeepsStatus(priority, max_retries, dependencies, status) ==
    IF submit_job_result = "QueueFull"
    THEN UNCHANGED prog
    ELSE LET job_id == next_id
             built == [NewJob(job_id, priority, max_retries, dependencies)
                          EXCEPT !.status = status]
             job == built
             js == Put(jobs, job_id, job)
             q == QueueInsert(queue, js, job_id)
         IN  /\ jobs' = js
             /\ queue' = q
             /\ stats' = [stats EXCEPT !.total_jobs = @ + 1,
                                       !.queued_jobs = @ + 1,
                                       !.queue_length = Len(q)]
             /\ next_id' = next_id + 1
             /\ UNCHANGED <<config, running_jobs, chan, worker, start_time, sched>>

\* submit_job refreshing the stored queue_length before the ceiling test.
submit_job_RefreshesFirst(priority, max_retries, dependencies, status) ==
    IF submit_job_result = "QueueFull"
    THEN /\ stats' = [stats EXCEPT !.queue_length = Len(queue)]
         /\ UNCHANGED <<config, jobs, queue, running_jobs, chan, worker, start_time,
                        sched, next_id>>
    ELSE LET job_id == next_id
             built == [NewJob(job_id, priority, max_retries, dependencies)
                          EXCEPT !.status = status]
             job == [built EXCEPT !.status = "Queued"]
             js == Put(jobs, job_id, job)
             q == QueueInsert(queue, js, job_id)
         IN  /\ jobs' = js
             /\ queue' = q
             /\ stats' = [stats EXCEPT !.total_jobs = @ + 1,
                                       !.queued_jobs = @ + 1,
                                       !.queue_length = Len(q)]
             /\ next_id' = next_id + 1
             /\ UNCHANGED <<config, running_jobs, chan, worker, start_time, sched>>

\* BatchProcessor::submit_job, for a job built by BatchJob::new(_, priority)
\* .with_retries(max_retries).with_dependencies(dependencies) whose public
\* status field the caller has set to `status`
submit_job(priority, max_retries, dependencies, status) ==
    IF submit_job_result = "QueueFull"
    THEN UNCHANGED prog
    ELSE LET job_id == next_id
             built == [NewJob(job_id, priority, max_retries, dependencies)
                          EXCEPT !.status = status]
             job == [built EXCEPT !.status = "Queued"]
             js == Put(jobs, job_id, job)
             q == QueueInsert(queue, js, job_id)
         IN  /\ jobs' = js
             /\ queue' = q
             /\ stats' = [stats EXCEPT !.total_jobs = @ + 1,
                                       !.queued_jobs = @ + 1,
                                       !.queue_length = Len(q)]
             /\ next_id' = next_id + 1
             /\ UNCHANGED <<config, running_jobs, chan, worker, start_time, sched>>

\* cancel_job: Ok(()), Err("Job not found") or Err("Job cannot be cancelled
\* in current state")
cancel_job_result(job_id) ==
    IF job_id \in Tracked
    THEN IF jobs[job_id].status \in {"Queued", "Running"} THEN "Ok" ELSE "InvalidState"
    ELSE "NotFound"

\* cancel_job counting the cancellation before it looks at the job's status.
cancel_job_CountsFirst(job_id) ==
    /\ IF job_id \in Tracked
       THEN CASE jobs[job_id].status = "Queued" ->
                   LET q == Retain(queue, job_id)
                   IN  /\ jobs' = [jobs EXCEPT ![job_id].status = "Cancelled"]
                       /\ queue' = q
                       /\ stats' = [stats EXCEPT !.queued_jobs = SatSub(@),
                                                 !.cancelled_jobs = @ + 1,
                                                 !.queue_length = Len(q)]
              [] jobs[job_id].status = "Running" ->
                   /\ jobs' = [jobs EXCEPT ![job_id].status = "Cancelled"]
                   /\ stats' = [stats EXCEPT !.running_jobs = SatSub(@),
                                             !.cancelled_jobs = @ + 1]
                   /\ UNCHANGED queue
              [] OTHER ->
                   /\ stats' = [stats EXCEPT !.cancelled_jobs = @ + 1]
                   /\ UNCHANGED <<jobs, queue>>
       ELSE UNCHANGED <<jobs, queue, stats>>
    /\ UNCHANGED <<config, running_jobs, chan, worker, start_time, sched, next_id>>

\* BatchProcessor::cancel_job
cancel_job(job_id) ==
    /\ IF job_id \in Tracked
       THEN CASE jobs[job_id].status = "Queued" ->
                   LET q == Retain(queue, job_id)
                   IN  /\ jobs' = [jobs EXCEPT ![job_id].status = "Cancelled"]
                       /\ queue' = q
                       /\ stats' = [stats EXCEPT !.queued_jobs = SatSub(@),
                                                 !.cancelled_jobs = @ + 1,
                                                 !.queue_length = Len(q)]
              [] jobs[job_id].status = "Running" ->
                   /\ jobs' = [jobs EXCEPT ![job_id].status = "Cancelled"]
                   /\ stats' = [stats EXCEPT !.running_jobs = SatSub(@),
                                             !.cancelled_jobs = @ + 1]
                   /\ UNCHANGED queue
              [] OTHER -> UNCHANGED <<jobs, queue, stats>>
       ELSE UNCHANGED <<jobs, queue, stats>>
    /\ UNCHANGED <<config, running_jobs, chan, worker, start_time, sched, next_id>>

\* BatchProcessor::get_job_status: the stored record, or nothing
get_job_status(job_id) == IF job_id \in Tracked THEN <<jobs[job_id]>> ELSE <<>>

\* get_stats returning the stored statistics as they are.
get_stats_Stored == stats

\* BatchProcessor::get_stats: a copy of the stored counters with the queue
\* length and the worker utilization (a percentage) computed at the call
get_stats ==
    [total_jobs |-> stats.total_jobs,
     queued_jobs |-> stats.queued_jobs,
     running_jobs |-> stats.running_jobs,
     completed_jobs |-> stats.completed_jobs,
     failed_jobs |-> stats.failed_jobs,
     cancelled_jobs |-> stats.cancelled_jobs,
     average_processing_time_seconds |-> stats.average_processing_time_seconds,
     queue_length |-> Len(queue),
     worker_utilization |->
         (Cardinality(running_jobs) * 100) \div config.max_concurrent_jobs]

\* The jobs a sweep removes: terminal and completed before the cutoff.
jobs_to_remove ==
    {id \in Tracked : jobs[id].status \in Terminal /\ jobs[id].completed_at = "Old"}

Removed(status) == Cardinality({id \in jobs_to_remove : jobs[id].status = status})

SatSubN(n, k) == IF n > k THEN n - k ELSE 0

\* The body of cleanup_completed_jobs, which the hourly cleanup task repeats.
Sweep ==
    /\ jobs' = Drop(jobs, jobs_to_remove)
    /\ stats' = [stats EXCEPT !.completed_jobs = SatSubN(@, Removed("Completed")),
                              !.failed_jobs = SatSubN(@, Removed("Failed")),
                              !.cancelled_jobs = SatSubN(@, Removed("Cancelled")),
                              !.total_jobs = Cardinality(Tracked \ jobs_to_remove)]
    /\ UNCHANGED <<config, queue, running_jobs, chan, worker, start_time, sched, next_id>>

\* BatchProcessor::cleanup_completed_jobs; it returns removed_count
cleanup_completed_jobs == Sweep

removed_count == Cardinality(jobs_to_remove)

\* BatchProcessor::start_cleanup_task, one pass of its loop
cleanup_task == Sweep

\* The wall clock moves on by more than the retention window and more than any
\* job's timeout_seconds: every time stamp written so far (started_at and
\* completed_at are both Utc::now() readings) is old from now on.
Aged(t) == IF t = "Recent" THEN "Old" ELSE t

TimePasses ==
    /\ \/ \E id \in Tracked : "Recent" \in {jobs[id].started_at, jobs[id].completed_at}
       \/ start_time = "Recent"
    /\ jobs' = [id \in Tracked |->
                  [jobs[id] EXCEPT !.started_at = Aged(@), !.completed_at = Aged(@)]]
    /\ start_time' = Aged(start_time)
    /\ UNCHANGED <<config, queue, stats, running_jobs, chan, worker, sched, next_id>>


\* ------------------------------------------------------------- worker task
\* WorkerStart without the write of started_at.
WorkerStart_NoStamp ==
    /\ worker = <<>>
    /\ chan # <<>>
    /\ LET job == Head(chan)
           job_id == job.id
       IN  /\ jobs' = IF job_id \in Tracked
                      THEN [jobs EXCEPT ![job_id].status = "Running"]
                      ELSE jobs
           /\ stats' = [stats EXCEPT !.queued_jobs = SatSub(@),
                                     !.running_jobs = @ + 1]
           /\ running_jobs' = running_jobs \cup {job_id}
           /\ worker' = <<job>>
           /\ start_time' = "Recent"
    /\ chan' = Tail(chan)
    /\ UNCHANGED <<config, queue, sched, next_id>>

\* start_workers: recv of a ProcessJob message and the block that marks the
\* job running, up to the awaited handler call.
WorkerStart ==
    /\ worker = <<>>
    /\ chan # <<>>
    /\ LET job == Head(chan)
           job_id == job.id
       IN  /\ jobs' = IF job_id \in Tracked
                      THEN [jobs EXCEPT ![job_id].status = "Running",
                                        ![job_id].started_at = "Recent"]
                      ELSE jobs
           /\ stats' = [stats EXCEPT !.queued_jobs = SatSub(@),
                                     !.running_jobs = @ + 1]
           /\ running_jobs' = running_jobs \cup {job_id}
           /\ worker' = <<job>>
           /\ start_time' = "Recent"
    /\ chan' = Tail(chan)
    /\ UNCHANGED <<config, queue, sched, next_id>>

\* ApplyResult with the retry arm forgetting to reset the status.
ApplyResult_RetryKeepsStatus(stored_job, result) ==
    LET done == [stored_job EXCEPT !.completed_at = "Recent"]
    IN  CASE result = "Success" ->
                [done EXCEPT !.status = "Completed", !.result_data = "Some"]
          [] result = "Failure" ->
                [done EXCEPT !.status = "Failed", !.error_message = "Failure"]
          [] result = "Retry" ->
                [done EXCEPT !.retry_count = @ + 1, !.error_message = "Retry"]
          [] result = "Cancel" ->
                [done EXCEPT !.status = "Cancelled"]

\* ApplyResult comparing retry_count with max_retries before incrementing it.
ApplyResult_ComparesBeforeIncrement(stored_job, result) ==
    LET done == [stored_job EXCEPT !.completed_at = "Recent"]
    IN  CASE result = "Success" ->
                [done EXCEPT !.status = "Completed", !.result_data = "Some"]
          [] result = "Failure" ->
                [done EXCEPT !.status = "Failed", !.error_message = "Failure"]
          [] result = "Retry" ->
                IF stored_job.retry_count < stored_job.max_retries
                THEN [done EXCEPT !.retry_count = @ + 1,
                                  !.status = "Queued",
                                  !.error_message = "Retry"]
                ELSE [done EXCEPT !.retry_count = @ + 1,
                                  !.status = "Failed",
                                  !.error_message = "MaxRetriesExceeded"]
          [] result = "Cancel" ->
                [done EXCEPT !.status = "Cancelled"]

\* The match on the handler's result, applied to the stored job.
ApplyResult(stored_job, result) ==
    LET done == [stored_job EXCEPT !.completed_at = "Recent"]
    IN  CASE result = "Success" ->
                [done EXCEPT !.status = "Completed", !.result_data = "Some"]
          [] result = "Failure" ->
                [done EXCEPT !.status = "Failed", !.error_message = "Failure"]
          [] result = "Retry" ->
                IF stored_job.retry_count + 1 < stored_job.max_retries
                THEN [done EXCEPT !.retry_count = @ + 1,
                                  !.status = "Queued",
                                  !.error_message = "Retry"]
                ELSE [done EXCEPT !.retry_count = @ + 1,
                                  !.status = "Failed",
                                  !.error_message = "MaxRetriesExceeded"]
          [] result = "Cancel" ->
                [done EXCEPT !.status = "Cancelled"]

\* CountResult leaving failed_jobs alone on a reported Failure.
CountResult_FailureUncounted(st, after, result) ==
    CASE result = "Success" -> [st EXCEPT !.completed_jobs = @ + 1]
      [] result = "Failure" -> st
      [] result = "Retry" ->
            IF after.status = "Failed" THEN [st EXCEPT !.failed_jobs = @ + 1] ELSE st
      [] result = "Cancel" -> [st EXCEPT !.cancelled_jobs = @ + 1]

\* The terminal counter the match bumps; `after` is the stored job after it.
CountResult(st, after, result) ==
    CASE result = "Success" -> [st EXCEPT !.completed_jobs = @ + 1]
      [] result = "Failure" -> [st EXCEPT !.failed_jobs = @ + 1]
      [] result = "Retry" ->
            IF after.status = "Failed" THEN [st EXCEPT !.failed_jobs = @ + 1] ELSE st
      [] result = "Cancel" -> [st EXCEPT !.cancelled_jobs = @ + 1]

\* start_time.elapsed() in whole seconds: 1 when the handler returned within
\* the period in which it was called, 2 when time has passed since.
elapsed(t) == IF t = "Recent" THEN 1 ELSE 2

RECURSIVE GCD(_, _)
GCD(a, b) == IF b = 0 THEN a ELSE GCD(b, a % b)

\* The exact quotient num / den as a fraction <<p, q>> in lowest terms; the
\* f64 value average_processing_time_seconds is kept as such a fraction.
Fraction(num, den) == LET g == GCD(num, den) IN <<num \div g, den \div g>>

\* The running-average update that ends the outcome block.
UpdateAverage(st, processing_time) ==
    LET total_completed == st.completed_jobs + st.failed_jobs
        avg == st.average_processing_time_seconds
    IN  IF total_completed > 0
        THEN [st EXCEPT !.average_processing_time_seconds =
                 Fraction(avg[1] * (total_completed - 1) + processing_time * avg[2],
                          avg[2] * total_completed)]
        ELSE st

\* WorkerFinish leaving the job's entry in the running set.
WorkerFinish_KeepsRunning(result) ==
    /\ worker # <<>>
    /\ result \in process_job_type(worker[1])
    /\ LET job_id == worker[1].id
           tracked == job_id \in Tracked
           after == IF tracked THEN ApplyResult(jobs[job_id], result) ELSE worker[1]
           st == IF tracked THEN CountResult(stats, after, result) ELSE stats
           processing_time == elapsed(start_time)
       IN  /\ jobs' = IF tracked THEN [jobs EXCEPT ![job_id] = after] ELSE jobs
           /\ stats' = UpdateAverage([st EXCEPT !.running_jobs = SatSub(@)],
                                     processing_time)
           /\ running_jobs' = running_jobs
    /\ worker' = <<>>
    /\ start_time' = "None"
    /\ UNCHANGED <<config, queue, chan, sched, next_id>>

\* start_workers: the handler call returns `result`; the block that records
\* the outcome.
WorkerFinish(result) ==
    /\ worker # <<>>
    /\ result \in process_job_type(worker[1])
    /\ LET job_id == worker[1].id
           tracked == job_id \in Tracked
           after == IF tracked THEN ApplyResult(jobs[job_id], result) ELSE worker[1]
           st == IF tracked THEN CountResult(stats, after, result) ELSE stats
           processing_time == elapsed(start_time)
       IN  /\ jobs' = IF tracked THEN [jobs EXCEPT ![job_id] = after] ELSE jobs
           /\ stats' = UpdateAverage([st EXCEPT !.running_jobs = SatSub(@)],
                                     processing_time)
           /\ running_jobs' = running_jobs \ {job_id}
    /\ worker' = <<>>
    /\ start_time' = "None"
    /\ UNCHANGED <<config, queue, chan, sched, next_id>>

\* ---------------------------------------------------------- scheduler task
Sched(pc, job_id, job) == [pc |-> pc, job_id |-> job_id, job |-> job]

\* SchedTick going on to the queue without the capacity check.
SchedTick_NoCapacity ==
    /\ sched.pc = "tick"
    /\ sched' = Sched("pop", <<>>, <<>>)
    /\ UNCHANGED <<config, jobs, queue, stats, running_jobs, chan, worker, start_time, next_id>>

\* start_scheduler: after the tick, the capacity check on the running set.
SchedTick ==
    /\ sched.pc = "tick"
    /\ sched' = IF Cardinality(running_jobs) >= config.max_concurrent_jobs
                THEN sched
                ELSE Sched("pop", <<>>, <<>>)
    /\ UNCHANGED <<config, jobs, queue, stats, running_jobs, chan, worker, start_time, next_id>>

\* start_scheduler: pop_front under the queue lock.
SchedPop ==
    /\ sched.pc = "pop"
    /\ IF queue = <<>>
       THEN /\ sched' = Sched("tick", <<>>, <<>>)
            /\ UNCHANGED queue
       ELSE /\ sched' = Sched("lookup", <<Head(queue)>>, <<>>)
            /\ queue' = Tail(queue)
    /\ UNCHANGED <<config, jobs, stats, running_jobs, chan, worker, start_time, next_id>>

\* start_scheduler: the clone of the popped job under the jobs lock.
SchedLookup ==
    /\ sched.pc = "lookup"
    /\ LET job_id == sched.job_id[1]
       IN  sched' = IF job_id \in Tracked
                    THEN Sched("check", <<job_id>>, <<jobs[job_id]>>)
                    ELSE Sched("tick", <<>>, <<>>)
    /\ UNCHANGED <<config, jobs, queue, stats, running_jobs, chan, worker, start_time, next_id>>

\* SchedCheck forgetting a job that is not ready instead of pushing it back.
SchedCheck_DropsNotReady ==
    /\ sched.pc = "check"
    /\ LET job == sched.job[1]
           completed_jobs == jobs
       IN  IF is_ready_to_run(job, completed_jobs)
           THEN chan' = Append(chan, job)
           ELSE UNCHANGED chan
    /\ sched' = Sched("tick", <<>>, <<>>)
    /\ UNCHANGED <<config, jobs, queue, stats, running_jobs, worker, start_time, next_id>>

\* SchedCheck putting a job that is not ready back at the head of the queue.
SchedCheck_PushFront ==
    /\ sched.pc = "check"
    /\ LET job_id == sched.job_id[1]
           job == sched.job[1]
           completed_jobs == jobs
       IN  IF is_ready_to_run(job, completed_jobs)
           THEN /\ chan' = Append(chan, job)
                /\ UNCHANGED queue
           ELSE /\ queue' = <<job_id>> \o queue
                /\ UNCHANGED chan
    /\ sched' = Sched("tick", <<>>, <<>>)
    /\ UNCHANGED <<config, jobs, stats, running_jobs, worker, start_time, next_id>>

\* start_scheduler: the snapshot of the job map, the readiness test, and the
\* send to the worker or the push back to the tail.
SchedCheck ==
    /\ sched.pc = "check"
    /\ LET job_id == sched.job_id[1]
           job == sched.job[1]
           completed_jobs == jobs
       IN  IF is_ready_to_run(job, completed_jobs)
           THEN /\ chan' = Append(chan, job)
                /\ UNCHANGED queue
           ELSE /\ queue' = Append(queue, job_id)
                /\ UNCHANGED chan
    /\ sched' = Sched("tick", <<>>, <<>>)
    /\ UNCHANGED <<config, jobs, stats, running_jobs, worker, start_time, next_id>>


\* ------------------------------------------------------------ lock order
\* The order in which each operation takes and drops its MutexGuards.  A
\* guard is dropped at the end of the block that declares it, guards of one
\* block in reverse order of declaration.
Lock(l) == <<"lock", l>>

Unlock(l) == <<"unlock", l>>

\* The awaited call of process_job_type.
Handler == <<"handler", "none">>

\* A block that takes the guards in the order of `ls` and drops them at its end.
RECURSIVE Block(_)
Block(ls) ==
    IF ls = <<>> THEN <<>> ELSE <<Lock(Head(ls))>> \o Block(Tail(ls)) \o <<Unlock(Head(ls))>>

submit_job_locks == {Block(<<"jobs", "queue", "stats">>)}

cancel_job_locks == {Block(<<"jobs", "queue", "stats">>)}

get_job_status_locks == {Block(<<"jobs">>)}

\* get_stats: stats and queue stay locked to the end; jobs is locked in the
\* inner block, only when the queue has a front; then running.
get_stats_locks ==
    {<<Lock("stats"), Lock("queue")>> \o inner \o Block(<<"running">>)
        \o <<Unlock("queue"), Unlock("stats")>> : inner \in {<<>>, Block(<<"jobs">>)}}

cleanup_completed_jobs_locks == {Block(<<"jobs", "stats">>)}

cleanup_task_locks == {Block(<<"jobs", "stats">>)}

\* The worker loop keeping the guards of its first block across the handler call.
start_workers_locks_HeldAcrossHandler ==
    {<<Lock("jobs"), Lock("stats"), Lock("running"), Handler,
       Unlock("running"), Unlock("stats"), Unlock("jobs")>>
        \o Block(<<"jobs", "stats", "running">>)}

\* start_workers, one ProcessJob message: the block that marks the job
\* running, the awaited handler call, the block that records the outcome.
start_workers_locks ==
    {Block(<<"jobs", "stats", "running">>) \o <<Handler>>
        \o Block(<<"jobs", "stats", "running">>)}

\* start_scheduler, one iteration: the capacity check, then possibly the pop,
\* the clone, the snapshot and the push back, each in a block of its own.
start_scheduler_locks ==
    {Block(<<"running">>),
     Block(<<"running">>) \o Block(<<"queue">>),
     Block(<<"running">>) \o Block(<<"queue">>) \o Block(<<"jobs">>),
     Block(<<"running">>) \o Block(<<"queue">>) \o Block(<<"jobs">>) \o Block(<<"jobs">>),
     Block(<<"running">>) \o Block(<<"queue">>) \o Block(<<"jobs">>) \o Block(<<"jobs">>)
         \o Block(<<"queue">>)}

LockPrograms(t) ==
    CASE t = "submit_job" -> submit_job_locks
      [] t = "cancel_job" -> cancel_job_locks
      [] t = "get_job_status" -> get_job_status_locks
      [] t = "get_stats" -> get_stats_locks
      [] t = "cleanup_completed_jobs" -> cleanup_completed_jobs_locks
      [] t = "cleanup_task" -> cleanup_task_locks
      [] t = "worker" -> start_workers_locks
      [] t = "scheduler" -> start_scheduler_locks

\* Task t begins a call (the worker: receives a message; the scheduler and
\* the cleanup task: their interval ticks).
Begin(t) ==
    /\ todo[t] = <<>>
    /\ \E program \in LockPrograms(t) : todo' = [todo EXCEPT ![t] = program]
    /\ UNCHANGED <<prog, holder>>

\* Mutex::lock returns to task t: the guard is free and becomes t's.
Acquire(t) ==
    /\ todo[t] # <<>>
    /\ Head(todo[t])[1] = "lock"
    /\ holder[Head(todo[t])[2]] = "free"
    /\ holder' = [holder EXCEPT ![Head(todo[t])[2]] = t]
    /\ todo' = [todo EXCEPT ![t] = Tail(@)]
    /\ UNCHANGED prog

\* Task t drops a guard.
Release(t) ==
    /\ todo[t] # <<>>
    /\ Head(todo[t])[1] = "unlock"
    /\ holder' = [holder EXCEPT ![Head(todo[t])[2]] = "free"]
    /\ todo' = [todo EXCEPT ![t] = Tail(@)]
    /\ UNCHANGED prog

\* The handler call of the worker returns.
HandlerReturns(t) ==
    /\ todo[t] # <<>>
    /\ Head(todo[t]) = Handler
    /\ todo' = [todo EXCEPT ![t] = Tail(@)]
    /\ UNCHANGED <<prog, holder>>

\* ------------------------------------------------------------- observation
\* ret, hist and log record what the operations did; no operation reads them.
HistInit ==
    [attempts |-> 0,           \* handler executions started for the job
     all_retry |-> TRUE,       \* every execution so far returned Retry
     cancel_ok |-> "none",     \* the status in which cancel_job returned Ok
     ever_completed |-> FALSE, \* the job has had status Completed
     lost |-> FALSE,           \* the job has had status Failed or Cancelled
     priority |-> Normal,      \* the priority it was submitted with
     queued |-> {},            \* on submission: the ids then in the queue
     sent |-> {}]              \* on submission: the ids already sent to the worker

\* A step at block granularity does not show in the lock-level view: each
\* block takes its guards and drops them within the step.
Returned(E, op, arg, res) ==
    /\ ret' = IF E.ret THEN [op |-> op, arg |-> arg, res |-> res] ELSE NoRet
    /\ UNCHANGED locks

Silent == ret' = NoRet /\ log' = log /\ UNCHANGED locks

\* ------------------------------------------------------------------- steps
\* E is the environment of a specification: the priorities, retry limits,
\* dependency lists and status fields of the jobs callers submit, the number
\* of jobs they build, and which observations are recorded.
\* The jobs callers submit; a rejected call reads none of the job's fields,
\* so one job stands for all of them.
SubmitInputs(E) ==
    IF submit_job_result = "QueueFull"
    THEN {<<Normal, DefaultMaxRetries, {}, "Queued">>}
    ELSE E.P \X E.R \X E.D \X E.S

Submit(E) ==
    \E in \in SubmitInputs(E) :
        /\ submit_job_result = "Ok" => next_id <= E.limit
        /\ submit_job(in[1], in[2], in[3], in[4])
        /\ hist' = IF submit_job_result = "Ok"
                   THEN Put(hist, next_id,
                            [HistInit EXCEPT !.priority = in[1],
                                             !.queued = IF E.log THEN Range(queue) ELSE {},
                                             !.sent = IF E.log THEN Range(log) ELSE {}])
                   ELSE hist
        /\ Returned(E, "submit_job",
                    IF submit_job_result = "Ok" THEN next_id ELSE 0, submit_job_result)
        /\ log' = log

Cancel(E) ==
    \E job_id \in 1..E.limit :
        /\ cancel_job(job_id)
        /\ hist' = IF cancel_job_result(job_id) = "Ok"
                   THEN [hist EXCEPT ![job_id].cancel_ok = jobs[job_id].status,
                                     ![job_id].lost = TRUE]
                   ELSE hist
        /\ Returned(E, "cancel_job", job_id, cancel_job_result(job_id))
        /\ log' = log

Cleanup(E) ==
    /\ cleanup_completed_jobs
    /\ Returned(E, "cleanup_completed_jobs", removed_count, "Ok")
    /\ UNCHANGED <<hist, log>>

CleanupTask == cleanup_task /\ Silent /\ UNCHANGED hist

Clock == TimePasses /\ Silent /\ UNCHANGED hist

Start ==
    /\ WorkerStart
    /\ hist' = [hist EXCEPT ![Head(chan).id].attempts = @ + 1]
    /\ Silent

Finish ==
    \E result \in JobResult :
        /\ WorkerFinish(result)
        /\ LET job_id == worker[1].id
           IN  hist' = [hist EXCEPT
                          ![job_id].all_retry = @ /\ result = "Retry",
                          ![job_id].lost =
                              @ \/ (job_id \in DOMAIN jobs'
                                    /\ jobs'[job_id].status \in {"Failed", "Cancelled"}),
                          ![job_id].ever_completed =
                              @ \/ (job_id \in DOMAIN jobs' /\ jobs'[job_id].status = "Completed")]
        /\ Silent

Tick == SchedTick /\ Silent /\ UNCHANGED hist

Pop == SchedPop /\ Silent /\ UNCHANGED hist

Lookup == SchedLookup /\ Silent /\ UNCHANGED hist

Check(E) ==
    /\ SchedCheck
    /\ log' = IF E.log /\ chan' # chan THEN Append(log, sched.job_id[1]) ELSE log
    /\ ret' = NoRet
    /\ UNCHANGED <<hist, locks>>

NextIn(E) ==
    \/ Submit(E)
    \/ Cancel(E)
    \/ Cleanup(E)
    \/ CleanupTask
    \/ Clock
    \/ Start
    \/ Finish
    \/ Tick
    \/ Pop
    \/ Lookup
    \/ Check(E)

\* ---------------------------------------------------------- specifications
\* The engine under every caller operation, with one worker slot configured
\* and dependencies among the jobs.
Configs ==
    [max_concurrent_jobs : {1},
     max_queue_size : {MaxJobs},
     priority_scheduling : {TRUE}]

Env ==
    [P |-> {Normal, High},
     R |-> {1, 2},
     D |-> {D \in SUBSET JobIds : Cardinality(D) <= 1},
     S |-> {"Queued"},
     limit |-> MaxJobs,
     ret |-> FALSE,
     log |-> FALSE]

Init == InitWith(Configs)

Next == NextIn(Env)

Spec == Init /\ [][Next]_vars


\* Priority scheduling with one worker slot: dependency-free jobs of every
\* priority, and the order in which the scheduler sends them recorded in log.
MaxPrioJobs == 3

ConfigsPrio ==
    [max_concurrent_jobs : {1},
     max_queue_size : {MaxPrioJobs},
     priority_scheduling : {TRUE}]

EnvPrio ==
    [P |-> JobPriority,
     R |-> {DefaultMaxRetries},
     D |-> {{}},
     S |-> {"Queued"},
     limit |-> MaxPrioJobs,
     ret |-> FALSE,
     log |-> TRUE]

InitPrio == InitWith(ConfigsPrio)

NextPrio ==
    \/ Submit(EnvPrio)
    \/ Start
    \/ Finish
    \/ Tick
    \/ Pop
    \/ Lookup
    \/ Check(EnvPrio)

SpecPrio == InitPrio /\ [][NextPrio]_vars

\* The caller's view: every call's return value recorded in ret, for queue
\* ceilings from 1 up to the number of jobs built.
ConfigsApi ==
    [max_concurrent_jobs : {1},
     max_queue_size : 1..MaxJobs,
     priority_scheduling : {TRUE}]

EnvApi ==
    [P |-> {Normal},
     R |-> {DefaultMaxRetries},
     D |-> {{}},
     S |-> JobStatus,
     limit |-> MaxJobs,
     ret |-> TRUE,
     log |-> FALSE]

InitApi == InitWith(ConfigsApi)

NextApi == NextIn(EnvApi)

SpecApi == InitApi /\ [][NextApi]_vars

\* Two worker slots configured, and a first job whose handler may never
\* return.  The tasks spawned by BatchProcessor::new keep running: a task
\* step that stays possible is eventually taken, and every handler call other
\* than the first job's returns.  Callers are under no obligation to call
\* anything, and no amount of wall-clock time is bound to pass.
ConfigsHang ==
    [max_concurrent_jobs : {2},
     max_queue_size : {MaxJobs},
     priority_scheduling : {TRUE}]

EnvHang ==
    [P |-> {Normal},
     R |-> {DefaultMaxRetries},
     D |-> {{}},
     S |-> {"Queued"},
     limit |-> MaxJobs,
     ret |-> FALSE,
     log |-> FALSE]

InitHang == InitWith(ConfigsHang)

NextHang == NextIn(EnvHang)

\* The first job submitted (ids are handed out in submission order).
FirstJob == CHOOSE id \in DOMAIN hist : \A j \in DOMAIN hist : id <= j

\* The handler call in progress is not the first job's.
Returns == worker # <<>> /\ worker[1].id # FirstJob

TasksRun(E) ==
    /\ WF_vars(Start)
    /\ WF_vars(Tick)
    /\ WF_vars(Pop)
    /\ WF_vars(Lookup)
    /\ WF_vars(Check(E))
    /\ WF_vars(CleanupTask)

SpecHang ==
    /\ InitHang
    /\ [][NextHang]_vars
    /\ TasksRun(EnvHang)
    /\ WF_vars(Returns /\ Finish)

\* One worker slot, jobs of two priorities with dependencies and the default
\* retry limit, the tasks running and every handler call returning (the
\* handler bodies are finite sequences of sleeps).
EnvLive ==
    [P |-> {Normal, High},
     R |-> {DefaultMaxRetries},
     D |-> {D \in SUBSET JobIds : Cardinality(D) <= 1},
     S |-> {"Queued"},
     limit |-> MaxJobs,
     ret |-> FALSE,
     log |-> FALSE]

NextLive == NextIn(EnvLive)

SpecLive ==
    /\ Init
    /\ [][NextLive]_vars
    /\ TasksRun(EnvLive)
    /\ WF_vars(Finish)

\* Three jobs of two priorities, each dependency-free or waiting on the
\* first one, with one worker slot: the scheduler moves jobs that are not
\* ready to the tail while others wait in the queue.
EnvTail ==
    [P |-> {Normal, High},
     R |-> {DefaultMaxRetries},
     D |-> {{}, {1}},
     S |-> {"Queued"},
     limit |-> MaxPrioJobs,
     ret |-> FALSE,
     log |-> FALSE]

NextTail ==
    \/ Submit(EnvTail)
    \/ Start
    \/ Finish
    \/ Tick
    \/ Pop
    \/ Lookup
    \/ Check(EnvTail)

SpecTail == InitPrio /\ [][NextTail]_vars

\* The engine with priority_scheduling switched off: three dependency-free
\* jobs of any priority, the order of sending recorded in log.
ConfigsFifo ==
    [max_concurrent_jobs : {1},
     max_queue_size : {MaxPrioJobs},
     priority_scheduling : {FALSE}]

InitFifo == InitWith(ConfigsFifo)

NextFifo ==
    \/ Submit(EnvPrio)
    \/ Start
    \/ Finish
    \/ Tick
    \/ Pop
    \/ Lookup
    \/ Check(EnvPrio)

SpecFifo == InitFifo /\ [][NextFifo]_vars

\* One or two worker slots configured, the tasks running and every handler
\* call returning; jobs of one priority, with and without a dependency.
ConfigsFair ==
    [max_concurrent_jobs : 1..MaxJobs,
     max_queue_size : {MaxJobs},
     priority_scheduling : {TRUE}]

EnvFair ==
    [P |-> {Normal},
     R |-> {DefaultMaxRetries},
     D |-> {{}, {1}},
     S |-> {"Queued"},
     limit |-> MaxJobs,
     ret |-> FALSE,
     log |-> FALSE]

InitFair == InitWith(ConfigsFair)

NextFair == NextIn(EnvFair)

SpecFair ==
    /\ InitFair
    /\ [][NextFair]_vars
    /\ TasksRun(EnvFair)
    /\ WF_vars(Finish)

\* The engine for jobs built with_retries(0) or with_retries(1).
EnvRetry ==
    [P |-> {Normal},
     R |-> {0, 1},
     D |-> {{}},
     S |-> {"Queued"},
     limit |-> MaxJobs,
     ret |-> FALSE,
     log |-> FALSE]

NextRetry == NextIn(EnvRetry)

SpecRetry == Init /\ [][NextRetry]_vars

\* The lock-level view alone: every task makes its calls concurrently, each
\* lock operation a step of its own.
InitLocks == InitWith(Configs)

NextLocks ==
    \/ \E t \in Tasks : Begin(t) /\ UNCHANGED <<ret, hist, log>>
    \/ \E t \in Tasks : Acquire(t) /\ UNCHANGED <<ret, hist, log>>
    \/ \E t \in Tasks : Release(t) /\ UNCHANGED <<ret, hist, log>>
    \/ \E t \in Tasks : HandlerReturns(t) /\ UNCHANGED <<ret, hist, log>>

SpecLocks == InitLocks /\ [][NextLocks]_vars

\* ------------------------------------------------------------------ claims
StatusIs(status) == {id \in Tracked : jobs[id].status = status}

\* C1: in every reachable state the number of jobs whose status is Running,
\* and the size of the running-jobs set, is at most max_concurrent_jobs.
C1_UtilizationBound ==
    /\ Cardinality(StatusIs("Running")) <= config.max_concurrent_jobs
    /\ Cardinality(running_jobs) <= config.max_concurrent_jobs

\* C1 witness: every slot is taken by a Running job while another job has
\* already been sent to the worker.
C1_Witness ==
    /\ Cardinality(StatusIs("Running")) = config.max_concurrent_jobs
    /\ Cardinality(running_jobs) = config.max_concurrent_jobs
    /\ chan # <<>>

\* C2: once a tracked job is Completed, Failed or Cancelled, no step changes
\* its status; it can only be removed (by the retention sweep).
C2_TerminalImmutable ==
    [][\A id \in Tracked :
          jobs[id].status \in Terminal /\ id \in DOMAIN jobs'
              => jobs'[id].status = jobs[id].status]_vars

\* The jobs the scheduler has handed over: waiting in the channel, inside the
\* handler call, or marked Running.
Dispatched ==
    {chan[i].id : i \in 1..Len(chan)} \cup {worker[i].id : i \in 1..Len(worker)}
        \cup StatusIs("Running")

\* C3: a job that has been dispatched (in particular one that is Running) has
\* only dependencies that were submitted and have been Completed.
C3_DependencyGating ==
    \A id \in Dispatched \cap Tracked :
        \A dep_id \in jobs[id].dependencies :
            dep_id \in DOMAIN hist /\ hist[dep_id].ever_completed

\* C3 witness: a job with a dependency is Running.
C3_Witness ==
    \E id \in Tracked : jobs[id].status = "Running" /\ jobs[id].dependencies # {}


\* Job i is sent to the worker before job j.
SentBefore(i, j) ==
    \E a, b \in 1..Len(log) : a < b /\ log[a] = i /\ log[b] = j

\* Job i goes first: strictly higher priority, or equal priority and
\* submitted earlier (ids are handed out in submission order).
GoesFirst(i, j) ==
    \/ hist[i].priority > hist[j].priority
    \/ hist[i].priority = hist[j].priority /\ i < j

\* C4 as stated: of two dependency-free jobs both submitted before either was
\* sent to the worker, the one of higher priority (the earlier one among
\* equals) is sent first.
C4_DispatchOrder_BeforeSend ==
    \A i, j \in DOMAIN hist :
        /\ (i < j /\ i \notin hist[j].sent /\ SentBefore(j, i)) => GoesFirst(j, i)
        /\ (i < j /\ i \notin hist[j].sent /\ SentBefore(i, j)) => GoesFirst(i, j)

\* C4 amended: of two dependency-free jobs that were in the queue together
\* (the later one submitted before the scheduler popped the earlier one), the
\* one of higher priority (the earlier one among equals) is sent first.
C4_DispatchOrder ==
    \A i, j \in DOMAIN hist :
        /\ (i < j /\ i \in hist[j].queued /\ SentBefore(j, i)) => GoesFirst(j, i)
        /\ (i < j /\ i \in hist[j].queued /\ SentBefore(i, j)) => GoesFirst(i, j)

\* C4 witness: Low, Critical, Normal were submitted in that order with no
\* pop in between and were sent as Critical, Normal, Low.
C4_Witness ==
    /\ DOMAIN hist = {1, 2, 3}
    /\ <<hist[1].priority, hist[2].priority, hist[3].priority>> = <<Low, Critical, Normal>>
    /\ hist[3].queued = {1, 2}
    /\ log = <<2, 3, 1>>


\* C5: submit_job returns the queue-full error exactly when the number of
\* tracked jobs, of whatever status, is already max_queue_size or more; so
\* the number of tracked jobs never exceeds max_queue_size.
C5_AdmissionBound ==
    /\ [](Cardinality(Tracked) <= config.max_queue_size)
    /\ [][ret'.op = "submit_job"
            => (ret'.res = "QueueFull" <=> Cardinality(Tracked) >= config.max_queue_size)]_vars

\* C5 witness: a submission was rejected while no tracked job is pending:
\* the ceiling is reached by terminal jobs alone.
C5_Witness ==
    /\ ret.op = "submit_job" /\ ret.res = "QueueFull"
    /\ Tracked # {}
    /\ \A id \in Tracked : jobs[id].status \in Terminal


\* The jobs the scheduler or the worker channel still holds for execution.
Pending ==
    Range(queue) \cup {sched.job_id[i] : i \in 1..Len(sched.job_id)}
        \cup {chan[i].id : i \in 1..Len(chan)}

\* A job never cancelled whose every finished execution returned Retry.
AlwaysRetries(id) ==
    hist[id].all_retry /\ hist[id].cancel_ok = "none" /\ hist[id].attempts >= 1

\* C6: a job whose handler returns Retry on every execution is executed at
\* most max_retries + 1 times, is Failed only after exactly max_retries + 1
\* executions (then with retry_count = max_retries), and until then is still
\* on its way to the next execution.
C6_RetryBound ==
    \A id \in Tracked :
        AlwaysRetries(id) =>
            /\ hist[id].attempts <= jobs[id].max_retries + 1
            /\ jobs[id].status = "Failed" =>
                  /\ hist[id].attempts = jobs[id].max_retries + 1
                  /\ jobs[id].retry_count = jobs[id].max_retries
            /\ jobs[id].status = "Queued" => id \in Pending

\* C7: no job has status Queued without being in the queue, in the
\* scheduler's hands or in the worker channel; in particular a job sent back
\* to Queued by a Retry outcome is in the queue again.
C7_RetryRequeued ==
    \A id \in Tracked : jobs[id].status = "Queued" => id \in Pending

\* C8: a job for which cancel_job returned Ok while it was Running stays
\* Cancelled, whatever its handler returns afterwards.
C8_CancelRunningSticks ==
    \A id \in Tracked : hist[id].cancel_ok = "Running" => jobs[id].status = "Cancelled"

\* C9: a job for which cancel_job returned Ok while it was Queued is from then
\* on absent from the queue, is never given to the handler and never Running.
C9_CancelQueuedSticks ==
    \A id \in DOMAIN hist :
        hist[id].cancel_ok = "Queued" =>
            /\ id \notin Range(queue)
            /\ \A i \in 1..Len(worker) : worker[i].id # id
            /\ id \in Tracked => jobs[id].status # "Running"

\* C10: cancel_job returns the not-found error for an untracked id and the
\* invalid-state error for a Completed, Failed or Cancelled job, and a call
\* that returns either error leaves jobs, queue and statistics unchanged.
C10_CancelErrors ==
    [][ret'.op = "cancel_job" =>
          /\ ret'.arg \notin Tracked => ret'.res = "NotFound"
          /\ (ret'.arg \in Tracked /\ jobs[ret'.arg].status \in Terminal)
                => ret'.res = "InvalidState"
          /\ ret'.res \in {"NotFound", "InvalidState"} => UNCHANGED <<jobs, queue, stats>>]_vars

\* C10 witness: cancel_job has just returned the invalid-state error for a
\* Completed job while another job is waiting in the queue.
C10_Witness ==
    /\ ret.op = "cancel_job" /\ ret.res = "InvalidState"
    /\ ret.arg \in Tracked /\ jobs[ret.arg].status = "Completed"
    /\ queue # <<>>


\* C11: a job that is still Running when the time since its started_at has
\* passed its timeout_seconds does not stay Running: the engine ends the
\* execution (as Failed) even if the handler never returns.
C11_TimeoutEnforced ==
    \A id \in JobIds :
        (id \in Tracked /\ jobs[id].status = "Running" /\ jobs[id].started_at = "Old")
            ~> (id \in Tracked => jobs[id].status # "Running")


\* Job id has been sent to the worker: it waits in the channel or its
\* execution has been started.
Sent(id) ==
    \/ \E i \in 1..Len(chan) : chan[i].id = id
    \/ id \in DOMAIN hist /\ hist[id].attempts >= 1

\* Job b, not cancelled and not yet sent, lists the Completed job a.
WaitsOnCompleted(b, a) ==
    /\ a \in Tracked /\ jobs[a].status = "Completed"
    /\ b \in Tracked /\ a \in jobs[b].dependencies
    /\ jobs[b].status = "Queued" /\ ~Sent(b)

\* The caller has cancelled job b (and a sweep may have removed it since).
Withdrawn(b) == b \in Tracked => jobs[b].status = "Cancelled"

\* The scheduler sends a job only after every job it lists has been sent.
SentAfterDependencies ==
    [][\A b \in Tracked :
          (~Sent(b) /\ Sent(b)') =>
              \A a \in jobs[b].dependencies : Sent(a)]_vars

Started(id) == id \in DOMAIN hist /\ hist[id].attempts >= 1

\* C13: with two or more slots configured, a job that has been sent to the
\* worker starts executing without waiting for the handler call in progress
\* to return, so that two jobs are Running at the same time (unless the
\* caller cancels it first).
C13_ConcurrentHandlers ==
    \A id \in JobIds :
        (/\ config.max_concurrent_jobs >= 2
         /\ worker # <<>>
         /\ \E i \in 1..Len(chan) : chan[i].id = id)
            ~> (Started(id) \/ Withdrawn(id))

\* C14: with two or more slots configured and the first job's handler never
\* returning, every other dependency-free accepted job is still executed to
\* its outcome (or cancelled, or removed).
C14_FaultIsolation ==
    \A id \in JobIds :
        (/\ config.max_concurrent_jobs >= 2
         /\ id \in Tracked /\ id # FirstJob
         /\ jobs[id].dependencies = {})
            ~> \/ id \notin Tracked
               \/ jobs[id].status \in Terminal
               \/ Started(id) /\ \A i \in 1..Len(worker) : worker[i].id # id


\* Position of id in the queue.
QueuePos(id) == CHOOSE i \in 1..Len(queue) : queue[i] = id

\* Job l is dependency-free and waits in the queue behind job h, which has
\* higher priority and is not ready to run.
BehindBlocked(l, h) ==
    /\ l \in Tracked /\ h \in Tracked
    /\ l \in Range(queue) /\ h \in Range(queue) /\ QueuePos(h) < QueuePos(l)
    /\ jobs[l].status = "Queued" /\ jobs[l].dependencies = {}
    /\ jobs[h].priority > jobs[l].priority
    /\ ~is_ready_to_run(jobs[h], jobs)

\* C15: a dependency-free job waiting in the queue behind a higher-priority
\* job that is not ready is eventually sent to the worker (unless the caller
\* cancels it first), whether or not the blocked job ever becomes ready.
C15_NoStarvation ==
    \A l, h \in JobIds :
        BehindBlocked(l, h) ~> (Sent(l) \/ Withdrawn(l))

\* C15 witness: job 1 has higher priority than job 2 and lists itself (so is
\* never ready); it has been moved to the tail and is alone in the queue,
\* and job 2 has been sent to the worker.
C15_Witness ==
    /\ Tracked = {1, 2}
    /\ jobs[1].priority > jobs[2].priority
    /\ jobs[1].dependencies = {1} /\ jobs[2].dependencies = {}
    /\ queue = <<1>> /\ jobs[1].status = "Queued"
    /\ sched.pc = "tick"
    /\ Len(chan) = 1 /\ chan[1].id = 2


\* Job k is tracked and ready to run in the current state.
ReadyNow(k) == k \in Tracked /\ is_ready_to_run(jobs[k], jobs)

\* C16: whenever the scheduler takes a ready job from the head of the queue
\* to dispatch it, no job left in the queue is ready with a strictly higher
\* priority, whatever submissions, cancellations, completions and moves to
\* the tail came before.
C16_HighestReadyFirst ==
    [][(sched.pc = "pop" /\ sched'.pc = "lookup" /\ ReadyNow(Head(queue))) =>
          \A k \in Range(queue') :
              ReadyNow(k) => jobs[k].priority <= jobs[Head(queue)].priority]_vars


\* C17: a job that lists a job which has been Failed or Cancelled is never
\* sent to the worker, and stays Queued unless the caller cancels it.
C17_BlockedStaysQueued ==
    \A b \in Tracked :
        \A a \in jobs[b].dependencies :
            (a \in DOMAIN hist /\ hist[a].lost) =>
                /\ ~Sent(b)
                /\ jobs[b].status = "Queued" \/ hist[b].cancel_ok # "none"


\* C18: a tracked job has completed_at set exactly when its status is
\* Completed, Failed or Cancelled: it is written by the step that makes the
\* job terminal (cancel_job included) and not for a job sent back to Queued.
C18_CompletedAtIffTerminal ==
    \A id \in Tracked :
        jobs[id].completed_at # "None" <=> jobs[id].status \in Terminal


\* C19: started_at is unset until the handler is first called for the job,
\* is set from then on (in particular whenever the job is Running), and once
\* set is never written again: it only grows older.
C19_StartedAtOnce ==
    /\ [](\A id \in Tracked :
             /\ ~Started(id) => jobs[id].started_at = "None"
             /\ (Started(id) \/ jobs[id].status = "Running") => jobs[id].started_at # "None")
    /\ [][\A id \in Tracked \cap DOMAIN jobs' :
             jobs[id].started_at # "None" =>
                 jobs'[id].started_at \in {jobs[id].started_at, Aged(jobs[id].started_at)}]_vars

\* C19 witness: a job was started long ago and has since been cancelled
\* while Running and completed by its handler.
C19_Witness ==
    \E id \in Tracked :
        /\ jobs[id].started_at = "Old"
        /\ hist[id].cancel_ok = "Running"
        /\ jobs[id].status = "Completed" /\ jobs[id].completed_at = "Recent"


\* The tracked jobs that are terminal and completed before the cutoff.
Expired ==
    {id \in Tracked : jobs[id].status \in Terminal /\ jobs[id].completed_at = "Old"}

\* A sweep removes exactly the expired jobs, so never a Queued or Running one.
SweepsExpired ==
    /\ DOMAIN jobs' = Tracked \ Expired
    /\ \A id \in Tracked : jobs[id].status \in {"Queued", "Running"} => id \in DOMAIN jobs'

\* C20: cleanup_completed_jobs and the periodic sweep remove exactly the
\* tracked terminal jobs whose completed_at is older than the retention
\* window, the call returns their number, and once the retention window has
\* passed every job that was terminal is removable by the next sweep.
C20_RetentionSweep ==
    /\ [][ret'.op = "cleanup_completed_jobs" =>
             SweepsExpired /\ ret'.arg = Cardinality(Expired)]_vars
    /\ [][CleanupTask => SweepsExpired]_vars
    /\ [][Clock => \A id \in Tracked :
                      jobs[id].status \in Terminal => jobs'[id].completed_at = "Old"]_vars


\* C21: the counters get_stats returns never drift from the job set: each of
\* queued_jobs, running_jobs, completed_jobs, failed_jobs and cancelled_jobs
\* equals the number of tracked jobs that have that status.
C21_StatsMatchJobs ==
    /\ get_stats.queued_jobs = Cardinality(StatusIs("Queued"))
    /\ get_stats.running_jobs = Cardinality(StatusIs("Running"))
    /\ get_stats.completed_jobs = Cardinality(StatusIs("Completed"))
    /\ get_stats.failed_jobs = Cardinality(StatusIs("Failed"))
    /\ get_stats.cancelled_jobs = Cardinality(StatusIs("Cancelled"))


\* C22: after a successful submit_job the job is tracked with status Queued
\* whatever status the submitted record carried, its id is in the queue, and
\* get_job_status finds it under the returned id; BatchJob::new gives a
\* Queued job with retry_count 0, and with_timeout and with_retries change
\* only the field they name.
C22_SubmitQueues ==
    /\ [][\A id \in JobIds :
             (ret'.op = "submit_job" /\ ret'.res = "Ok" /\ ret'.arg = id) =>
                 /\ get_job_status(id)' # <<>>
                 /\ get_job_status(id)'[1].id = id
                 /\ get_job_status(id)'[1].status = "Queued"
                 /\ id \in Range(queue')]_vars
    /\ \A id \in JobIds, p \in JobPriority :
          LET job == BatchJob_new(id, p)
          IN  /\ job.status = "Queued" /\ job.retry_count = 0
              /\ \A t \in {0, 1, DefaultTimeout + 1} :
                    with_timeout(job, t) = [job EXCEPT !.timeout_seconds = t]
              /\ \A r \in 0..DefaultMaxRetries + 1 :
                    with_retries(job, r) = [job EXCEPT !.max_retries = r]

\* C22 witness: submit_job has just accepted a second job, which is Queued
\* and in the queue, while the first job is Completed.
C22_Witness ==
    /\ ret = [op |-> "submit_job", arg |-> 2, res |-> "Ok"]
    /\ get_job_status(2) # <<>> /\ get_job_status(2)[1].status = "Queued"
    /\ 2 \in Range(queue)
    /\ get_job_status(1) # <<>> /\ get_job_status(1)[1].status = "Completed"


\* C23: the total_jobs statistic equals the number of tracked jobs, and the
\* queue_length that get_stats returns equals the current length of the queue.
C23_TotalAndQueueLength ==
    /\ get_stats.total_jobs = Cardinality(Tracked)
    /\ get_stats.queue_length = Len(queue)

\* C23 witness: a sweep has removed one of two submitted jobs, the other is
\* still tracked and counted, and the scheduler has popped the queue since
\* the last submission stored queue_length.
C23_Witness ==
    /\ next_id = 3 /\ Cardinality(Tracked) = 1
    /\ get_stats.total_jobs = 1
    /\ stats.queue_length # Len(queue)


\* The queue holds its tracked jobs in non-increasing priority order.
SortedQueue ==
    \A i, j \in 1..Len(queue) :
        (i < j /\ queue[i] \in Tracked /\ queue[j] \in Tracked) =>
            jobs[queue[i]].priority >= jobs[queue[j]].priority

\* The new id sits at position i of the new queue: the rest is the old queue
\* in its order, no id before it has lower priority and the id after it has.
InsertedAt(i, id) ==
    /\ queue'[i] = id
    /\ queue = SubSeq(queue', 1, i - 1) \o SubSeq(queue', i + 1, Len(queue'))
    /\ \A j \in 1..(i - 1) :
          queue[j] \in Tracked => jobs[queue[j]].priority >= jobs'[id].priority
    /\ i <= Len(queue) =>
          queue[i] \in Tracked /\ jobs[queue[i]].priority < jobs'[id].priority

\* A scheduler step that puts the popped id back at the tail.
PushesBack == sched.pc = "check" /\ Len(queue') > Len(queue)

\* C24: with priority scheduling, submit_job inserts the new id immediately
\* before the first queued id whose job has strictly lower priority, or at
\* the back if there is none, keeping the order of the ids already queued;
\* so the queue stays sorted by non-increasing priority as long as no
\* scheduler tick moves a not-ready job to the tail.
C24_PriorityInsert ==
    /\ [][(config.priority_scheduling /\ next_id' # next_id) =>
             /\ Len(queue') = Len(queue) + 1
             /\ \E i \in 1..Len(queue') : InsertedAt(i, next_id)]_vars
    /\ [][(config.priority_scheduling /\ SortedQueue /\ ~PushesBack) =>
             SortedQueue']_vars

\* C24 witness: the third job was inserted between two queued jobs, behind
\* one of its own priority and before one of lower priority.
C24_Witness ==
    /\ config.priority_scheduling
    /\ queue = <<1, 3, 2>>
    /\ jobs[1].priority = jobs[3].priority
    /\ jobs[3].priority > jobs[2].priority


\* The ids in log are in strictly increasing order, which is the order of
\* submission.
SentInSubmissionOrder ==
    \A a, b \in 1..Len(log) : a < b => log[a] < log[b]

\* C25: with priority_scheduling disabled, submit_job appends the new id at
\* the back of the queue, so dependency-free jobs are sent to the worker in
\* their submission order whatever their priorities.
C25_FifoWhenDisabled ==
    /\ [][(~config.priority_scheduling /\ next_id' # next_id) =>
             queue' = Append(queue, next_id)]_vars
    /\ [](~config.priority_scheduling => SentInSubmissionOrder)

\* C25 witness: Low, Critical and Normal jobs were queued together in that
\* order and were sent in that order.
C25_Witness ==
    /\ ~config.priority_scheduling
    /\ log = <<1, 2, 3>>
    /\ hist[3].queued = {1, 2}
    /\ jobs[1].priority = Low /\ jobs[2].priority = Critical /\ jobs[3].priority = Normal


\* The running set is at or above max_concurrent_jobs.
AtCapacity == Cardinality(running_jobs) >= config.max_concurrent_jobs

\* The scheduler goes through one iteration in order: capacity check, pop,
\* clone, readiness test, and back to waiting for the next tick.
OneIteration ==
    /\ (sched'.pc = "pop" /\ sched # sched') => sched.pc = "tick"
    /\ (sched'.pc = "lookup" /\ sched # sched') => sched.pc = "pop"
    /\ (sched'.pc = "check" /\ sched # sched') => sched.pc = "lookup"

\* C26: a scheduler tick pops at most one queue entry and sends at most one
\* job; a tick that finds the running set at capacity leaves the queue and
\* every job unchanged; a tick whose popped head is not ready puts that id at
\* the tail of the queue and changes nothing else.
C26_OneEntryPerTick ==
    /\ [][OneIteration]_vars
    /\ [][(sched # sched' /\ Len(queue') < Len(queue)) =>
             sched.pc = "pop" /\ sched'.pc = "lookup" /\ queue' = Tail(queue)]_vars
    /\ [][Len(chan') > Len(chan) =>
             /\ sched.pc = "check" /\ sched'.pc = "tick"
             /\ chan' = Append(chan, sched.job[1])]_vars
    /\ [][(sched.pc = "tick" /\ AtCapacity) => sched' = sched]_vars
    /\ [][(Tick /\ AtCapacity) => UNCHANGED <<jobs, queue, chan, stats>>]_vars
    /\ [][(sched.pc = "check" /\ sched # sched'
              /\ ~is_ready_to_run(sched.job[1], jobs)) =>
             /\ queue' = Append(queue, sched.job_id[1])
             /\ sched'.pc = "tick"
             /\ UNCHANGED <<jobs, stats, chan, running_jobs, worker, start_time>>]_vars

\* C26 witness: the scheduler popped job 2, found it waiting for the running
\* job 1 and put it behind job 3 of the same priority; it is now back at the
\* tick with the running set at capacity and the queue not empty.
C26_Witness ==
    /\ sched.pc = "tick" /\ AtCapacity
    /\ queue = <<3, 2>>
    /\ jobs[2].priority = jobs[3].priority
    /\ jobs[2].dependencies = {1}
    /\ jobs[1].status = "Running"


\* The jobs taken out of the queue for execution that have not finished:
\* those waiting in the worker channel and those in the running set.
Admitted == {chan[i].id : i \in 1..Len(chan)} \cup running_jobs

\* C27: the number of jobs taken out of the queue for execution and not yet
\* finished, waiting in the worker channel or running, never exceeds
\* max_concurrent_jobs.
C27_AdmissionGated == Cardinality(Admitted) <= config.max_concurrent_jobs


\* The status changes the state machine permits.
Permitted ==
    ({"Queued"} \X {"Running", "Cancelled"})
        \cup ({"Running"} \X {"Completed", "Failed", "Queued", "Cancelled"})

\* C28: every status change of a tracked job is a permitted transition, from
\* Queued only to Running or Cancelled and from Running only to Completed,
\* Failed, Queued or Cancelled; Paused is never entered.
C28_PermittedTransitions ==
    [][\A id \in Tracked \cap DOMAIN jobs' :
          jobs'[id].status # jobs[id].status =>
              <<jobs[id].status, jobs'[id].status>> \in Permitted]_vars


\* The terminal counters after a step are those before it with `status`
\* counted once more; no terminal counter moves when status is "None".
CountsOneMore(status) ==
    /\ stats'.completed_jobs = stats.completed_jobs + (IF status = "Completed" THEN 1 ELSE 0)
    /\ stats'.failed_jobs = stats.failed_jobs + (IF status = "Failed" THEN 1 ELSE 0)
    /\ stats'.cancelled_jobs = stats.cancelled_jobs + (IF status = "Cancelled" THEN 1 ELSE 0)

\* The status each final result gives.
Outcome(result) ==
    CASE result = "Success" -> "Completed"
      [] result = "Failure" -> "Failed"
      [] result = "Cancel" -> "Cancelled"

\* C29: for a job that is Running when its handler returns, Success gives
\* Completed with the result data, Failure gives Failed with the reason as
\* error_message, Cancel gives Cancelled; exactly the matching terminal
\* counter goes up by one and the job leaves the running set.
C29_OutcomeMapping ==
    [][\A result \in {"Success", "Failure", "Cancel"} :
          (/\ WorkerFinish(result)
           /\ worker[1].id \in Tracked
           /\ jobs[worker[1].id].status = "Running") =>
              LET id == worker[1].id
              IN  /\ jobs'[id].status = Outcome(result)
                  /\ result = "Success" => jobs'[id].result_data = "Some"
                  /\ result = "Failure" => jobs'[id].error_message = "Failure"
                  /\ CountsOneMore(Outcome(result))
                  /\ id \notin running_jobs']_vars

\* C29 witness: a job nobody cancelled has Failed with the handler's reason,
\* is counted once as failed, and the running set is empty again.
C29_Witness ==
    /\ 1 \in Tracked
    /\ hist[1].cancel_ok = "none"
    /\ jobs[1].status = "Failed" /\ jobs[1].error_message = "Failure"
    /\ stats.failed_jobs = 1 /\ stats.completed_jobs = 0 /\ stats.cancelled_jobs = 0
    /\ running_jobs = {} /\ worker = <<>>

\* C30: a Retry outcome increments retry_count and then compares it with
\* max_retries: if it is still below, the job becomes Queued with the retry
\* reason as error_message and no terminal counter changes; otherwise it
\* becomes Failed with the max-retries-exceeded message and failed_jobs goes
\* up by one.
C30_RetryOutcome ==
    [][(WorkerFinish("Retry") /\ worker[1].id \in Tracked) =>
          LET id == worker[1].id
          IN  /\ jobs'[id].retry_count = jobs[id].retry_count + 1
              /\ IF jobs[id].retry_count + 1 < jobs[id].max_retries
                 THEN /\ jobs'[id].status = "Queued"
                      /\ jobs'[id].error_message = "Retry"
                      /\ CountsOneMore("None")
                 ELSE /\ jobs'[id].status = "Failed"
                      /\ jobs'[id].error_message = "MaxRetriesExceeded"
                      /\ jobs'[id].error_message # "Failure"
                      /\ CountsOneMore("Failed")]_vars

\* C30 witness: job 1, allowed one retry, has failed on its first Retry with
\* the max-retries message, and job 2, allowed two, is Queued again after
\* its first Retry; only job 1 is counted as failed.
C30_Witness ==
    /\ Tracked = {1, 2}
    /\ jobs[1].max_retries = 1 /\ jobs[1].retry_count = 1
    /\ jobs[1].status = "Failed" /\ jobs[1].error_message = "MaxRetriesExceeded"
    /\ jobs[2].max_retries = 2 /\ jobs[2].retry_count = 1
    /\ jobs[2].status = "Queued" /\ jobs[2].error_message = "Retry"
    /\ stats.failed_jobs = 1


\* The number of executions counted as ended Completed or Failed.
Finished == stats.completed_jobs + stats.failed_jobs

\* C31: average_processing_time_seconds changes only in a step that raises
\* the Completed + Failed count, and then to the mean with n the new count;
\* a Cancel outcome, a Retry that re-queues and a sweep leave it unchanged.
C31_AverageOfFinished ==
    [][stats'.average_processing_time_seconds # stats.average_processing_time_seconds =>
          /\ Finished' = Finished + 1
          /\ LET avg == stats.average_processing_time_seconds
                 new == stats'.average_processing_time_seconds
             IN  new[1] * avg[2] * Finished' =
                     (avg[1] * Finished + elapsed(start_time) * avg[2]) * new[2]]_vars


\* The worker is inside the handler call.
InHandler == todo["worker"] # <<>> /\ Head(todo["worker"]) = Handler

\* Task t is blocked in Mutex::lock on a guard that task u holds.
Waits(t, u) ==
    /\ todo[t] # <<>>
    /\ Head(todo[t])[1] = "lock"
    /\ holder[Head(todo[t])[2]] = u

\* C32: while the worker is inside a handler call it holds no lock on the
\* job set, the queue, the statistics or the running set, so no other
\* operation waits for the worker.
C32_NoLockAcrossHandler ==
    InHandler =>
        /\ \A l \in Mutexes : holder[l] # "worker"
        /\ \A t \in Tasks : ~Waits(t, "worker")

\* C32 witness: the worker is inside the handler call while submit_job holds
\* the three locks it needs and get_job_status waits for submit_job.
C32_Witness ==
    /\ InHandler
    /\ \A l \in {"jobs", "queue", "stats"} : holder[l] = "submit_job"
    /\ holder["running"] = "scheduler"
    /\ Waits("get_job_status", "submit_job")

\* C33: no state is reachable in which two operations each hold a lock and
\* wait for a lock the other holds.
C33_DeadlockFree ==
    \A t, u \in Tasks : ~(t # u /\ Waits(t, u) /\ Waits(u, t))


\* C34: every id in the priority queue refers to a tracked job whose status
\* is Queued, and no id occurs in the queue more than once.
C34_QueueHoldsQueuedJobs ==
    /\ \A i \in 1..Len(queue) :
          queue[i] \in Tracked /\ jobs[queue[i]].status = "Queued"
    /\ \A i, j \in 1..Len(queue) : queue[i] = queue[j] => i = j


\* C35: a submit_job call rejected because the queue is full leaves the job
\* set, the priority queue and every statistics counter as they were.
C35_RejectedSubmitNoEffect ==
    [][(ret'.op = "submit_job" /\ ret'.res = "QueueFull") =>
          UNCHANGED <<jobs, queue, stats>>]_vars

\* C35 witness: a submission has just been rejected while the stored
\* queue_length is out of date, the scheduler having popped since.
C35_Witness ==
    /\ ret.op = "submit_job" /\ ret.res = "QueueFull"
    /\ Cardinality(Tracked) >= config.max_queue_size
    /\ stats.queue_length # Len(queue)


\* C36: retry_count <= max_retries for every tracked job, for every value of
\* max_retries including 0.
C36_RetryCountBounded ==
    \A id \in Tracked : jobs[id].retry_count <= jobs[id].max_retries


\* C37: readiness is stable: a Queued job whose dependencies are all
\* Completed is still ready after any step that leaves it Queued, a
\* retention sweep of a Completed dependency included.
C37_ReadinessStable ==
    [][\A id \in Tracked \cap DOMAIN jobs' :
          (/\ is_ready_to_run(jobs[id], jobs)
           /\ jobs'[id].status = "Queued") =>
              is_ready_to_run(jobs'[id], jobs')]_vars


\* Job id has been accepted and has no dependencies.
AcceptedFree(id) == id \in Tracked /\ jobs[id].dependencies = {}

\* Job id has reached a terminal status (and may have been swept since), or
\* is outside the claim: cancelled by a caller, or sent back by a Retry.
Settled(id) ==
    \/ id \notin Tracked
    \/ jobs[id].status \in Terminal
    \/ hist[id].cancel_ok # "none"
    \/ jobs[id].retry_count >= 1

\* C38: with the tasks running and handler calls returning, every accepted
\* job without dependencies that no caller cancels and whose handler returns
\* Success, Failure or Cancel eventually reaches a terminal status.
C38_EventuallyTerminal ==
    \A id \in JobIds : AcceptedFree(id) ~> Settled(id)

\* C38 witness: with one worker slot, two dependency-free jobs that nobody
\* cancelled and no handler sent back have both reached a terminal status.
C38_Witness ==
    /\ config.max_concurrent_jobs = 1
    /\ Tracked = {1, 2}
    /\ \A id \in Tracked :
          /\ jobs[id].dependencies = {}
          /\ hist[id].cancel_ok = "none"
          /\ jobs[id].retry_count = 0
    /\ jobs[1].status = "Failed" /\ jobs[2].status = "Completed"

====
